---------------------------- MODULE Spec2Model ----------------------------
(***************************************************************************)
(* Model of the Instagram scrape / normalise / persist pipeline:           *)
(*   scrapeInstagram      my-app/src/app/api/scrape/instagram-scraper.ts   *)
(*   connectToDatabase, storeProfileData, getProfileData                   *)
(*                        my-app/src/lib/mongodb.ts                        *)
(*   POST (submit endpoint), GET (read endpoint)                           *)
(* JavaScript values are tagged records so that `x || d`, optional fields  *)
(* and `$set` keep their JavaScript / MongoDB meaning.                     *)
(***************************************************************************)
EXTENDS Integers, Sequences, FiniteSets, TLC

(* ---------------------------- bounds ----------------------------------- *)
\* total number of HTTP requests served in one behaviour
MaxRequests == 2

(* ------------------------- JavaScript values --------------------------- *)
Undef == [t |-> "undefined"]
Str(s) == [t |-> "string", s |-> s]
Num(n) == [t |-> "number", n |-> n]
Bool(b) == [t |-> "boolean", b |-> b]
Arr(a) == [t |-> "array", a |-> a]
\* new Date().toISOString() read at logical time n
Iso(n) == [t |-> "string", iso |-> n]

\* JavaScript truthiness: undefined, "", 0 and false are falsy
Truthy(v) ==
    CASE v.t = "undefined" -> FALSE
      [] v.t = "string" -> IF "s" \in DOMAIN v THEN v.s # "" ELSE TRUE
      [] v.t = "number" -> v.n # 0
      [] v.t = "boolean" -> v.b
      [] OTHER -> TRUE

\* x || d
Or(x, d) == IF Truthy(x) THEN x ELSE d

\* String.prototype.toLowerCase on the strings of the model
LowerOf(s) == IF s = "Foo" THEN "foo" ELSE s

\* item.username?.toLowerCase(): undefined stays undefined
ToLowerCase(v) == IF v.t = "string" THEN Str(LowerOf(v.s)) ELSE Undef

(* ------------------------- provider records ---------------------------- *)
ItemFields == {"type", "username", "ownerUsername", "shortCode", "id",
               "fullName", "biography", "followersCount", "followingCount",
               "profilePicUrl", "externalUrl", "verified", "caption", "url",
               "commentsCount", "likesCount", "timestamp", "images",
               "videoUrls", "mentions", "hashtags"}

\* the fields of the `user` object
ProfileFieldNames == {"username", "fullName", "biography", "followersCount",
                      "followingCount", "profilePicUrl", "externalUrl",
                      "verified"}

\* a record none of whose fields is present
Blank == [f \in ItemFields |-> Undef]

Img(u) == [url |-> Str(u), width |-> Num(640), height |-> Undef]

\* an image entry without a url
ImgNoUrl == [url |-> Undef, width |-> Undef, height |-> Undef]

ProfileFoo == [Blank EXCEPT !.type = Str("user"), !.username = Str("foo"),
                            !.fullName = Str("Foo Bar"),
                            !.followingCount = Num(7),
                            !.profilePicUrl = Str("http://cdn/pic.png"),
                            !.verified = Bool(TRUE)]

PostOne == [Blank EXCEPT !.type = Str("Post"), !.ownerUsername = Str("foo"),
                         !.shortCode = Str("sc1"), !.id = Str("p1"),
                         !.caption = Str("hello"),
                         !.likesCount = Num(3),
                         !.images = Arr(<<Img("http://cdn/a.jpg"), ImgNoUrl>>)]

\* a profile-shaped record of somebody else
ProfileOther == [Blank EXCEPT !.username = Str("other"),
                              !.fullName = Str("Other"),
                              !.followersCount = Num(5)]

\* a record whose username is not a string
BadUsername == [Blank EXCEPT !.username = Num(42)]

\* the provider of one behaviour answers from one of these catalogues
Catalogs == { {<<>>, <<ProfileFoo>>, <<PostOne, ProfileFoo>>},
              {<<>>, <<ProfileOther>>, <<PostOne>>, <<BadUsername>>} }

\* a profile record that carries nothing but the handle
ProfileBare == [Blank EXCEPT !.username = Str("foo")]

\* a second post of foo: lower-case type, owner spelled differently, no
\* shortCode
PostTwo == [Blank EXCEPT !.type = Str("post"), !.ownerUsername = Str("Foo"),
                         !.id = Str("p2"),
                         !.images = Arr(<<Img("http://cdn/b.jpg"), ImgNoUrl,
                                          Img("http://cdn/c.jpg")>>)]

\* a profile record whose counts are not counts
ProfileNeg == [Blank EXCEPT !.type = Str("profile"), !.username = Str("foo"),
                            !.followersCount = Num(-5),
                            !.followingCount = Str("1.2k"),
                            !.profilePicUrl = Str("http://cdn/neg.png")]

\* post-shaped records that are not foo's, or do not say whose they are
PostOther == [Blank EXCEPT !.type = Str("Post"), !.ownerUsername = Str("other"),
                           !.shortCode = Str("sc9"), !.id = Str("p9")]

PostNoOwner == [Blank EXCEPT !.shortCode = Str("sc8"), !.id = Str("p8")]

\* two posts of foo that carry one id
PostDup == [Blank EXCEPT !.type = Str("Post"), !.ownerUsername = Str("foo"),
                         !.shortCode = Str("sc1"), !.id = Str("p1")]

PostDupAgain == [PostDup EXCEPT !.shortCode = Str("sc2")]

\* somebody else's record with a negative count
OtherNeg == [ProfileOther EXCEPT !.followersCount = Num(-5)]

\* datasets that exercise the normalisation of one run
RecordCatalogs ==
    { {<<PostOne, ProfileFoo, PostTwo>>},
      {<<ProfileNeg, PostOther, PostNoOwner, PostDup, PostDupAgain>>},
      {<<OtherNeg>>, <<ProfileBare>>} }

\* the clients of one behaviour send the usernames of one of these sets:
\* empty and whitespace-only, or two spellings of one handle
InputSets == { {"", " "}, {"foo", "Foo"} }


(* ----------------------- snapshot construction ------------------------- *)
\* the `user` object of the empty and error snapshots
DefaultUser(username, bio) ==
    [username |-> Str(username), fullName |-> Str(""), biography |-> Str(bio),
     followersCount |-> Num(0), followingCount |-> Num(0),
     profilePicUrl |-> Str(""), externalUrl |-> Str(""),
     verified |-> Bool(FALSE)]

emptyData(username, ts) ==
    [user |-> DefaultUser(username,
         "No data available. This account may be private or not exist."),
     posts |-> <<>>, scrapedAt |-> Iso(ts), status |-> "empty_or_private",
     error |-> Str("No data returned from scraper")]

fallbackData(username, items, ts) ==
    LET fallbackProfile == items[1] IN
    [user |-> [username |-> Str(username),
               fullName |-> Or(fallbackProfile.fullName, Str("")),
               biography |-> Or(fallbackProfile.biography,
                    Str("Profile data could not be completely retrieved.")),
               followersCount |-> Or(fallbackProfile.followersCount, Num(0)),
               followingCount |-> Or(fallbackProfile.followingCount, Num(0)),
               profilePicUrl |-> Or(fallbackProfile.profilePicUrl, Str("")),
               externalUrl |-> Or(fallbackProfile.externalUrl, Str("")),
               verified |-> Or(fallbackProfile.verified, Bool(FALSE))],
     posts |-> <<>>, scrapedAt |-> Iso(ts), status |-> "partial_data",
     error |-> Str("Profile data not found in scraper response")]

userOf(profile, username) ==
    [username |-> Or(profile.username, Str(username)),
     fullName |-> Or(profile.fullName, Str("")),
     biography |-> Or(profile.biography, Str("")),
     followersCount |-> Or(profile.followersCount, Num(0)),
     followingCount |-> Or(profile.followingCount, Num(0)),
     profilePicUrl |-> Or(profile.profilePicUrl, Str("")),
     externalUrl |-> Or(profile.externalUrl, Str("")),
     verified |-> Or(profile.verified, Bool(FALSE))]

formattedData(user, posts, ts) ==
    [user |-> user, posts |-> posts, scrapedAt |-> Iso(ts),
     status |-> "success"]

\* an error snapshot that copies error.message as it is
errorDataBareMessage(username, message, ts) ==
    [user |-> DefaultUser(username, "Error retrieving data."),
     posts |-> <<>>, scrapedAt |-> Iso(ts), status |-> "error",
     error |-> message]

\* error.message || 'Unknown error during scraping'
errorData(username, message, ts) ==
    [user |-> DefaultUser(username, "Error retrieving data."),
     posts |-> <<>>, scrapedAt |-> Iso(ts), status |-> "error",
     error |-> Or(message, Str("Unknown error during scraping"))]

(* ------------------------ record classification ------------------------ *)
\* calling .toLowerCase() through ?. on a value that is neither a string
\* nor undefined is a TypeError
LowerThrows(v) == v.t \notin {"string", "undefined"}

IsProfileMatch(item, username) ==
    /\ ToLowerCase(item.username) = Str(LowerOf(username))
    /\ \/ item.type = Str("user")
       \/ item.type = Str("profile")
       \/ ~Truthy(item.shortCode)

\* index of the record items.find(...) returns, 0 when it returns undefined
FindProfile(items, username) ==
    LET hits == {i \in 1..Len(items) : IsProfileMatch(items[i], username)}
    IN IF hits = {} THEN 0 ELSE CHOOSE i \in hits : \A j \in hits : i <= j

\* items.find(...) examines records in order up to the first match
FindThrows(items, username) ==
    LET k == FindProfile(items, username)
        last == IF k = 0 THEN Len(items) ELSE k
    IN \E i \in 1..last : LowerThrows(items[i].username)

IsPostShaped(item) ==
    \/ item.type = Str("Post")
    \/ item.type = Str("post")
    \/ Truthy(item.shortCode)

\* the filter of the earlier variant: nobody asks whose post it is
IsPostItemAnyOwner(item, username) == IsPostShaped(item)

IsPostItem(item, username) ==
    /\ IsPostShaped(item)
    /\ ToLowerCase(item.ownerUsername) = Str(LowerOf(username))

FilterThrows(items, username) ==
    \E i \in 1..Len(items) :
        IsPostShaped(items[i]) /\ LowerThrows(items[i].ownerUsername)

postItems(items, username) ==
    LET Keep(item) == IsPostItem(item, username) IN SelectSeq(items, Keep)

\* Array.isArray(post.images) && post.images.length > 0
ImagesOf(post) == IF post.images.t = "array" THEN post.images.a ELSE <<>>

(* --------------------------- media relocation -------------------------- *)
\* `images/${username}/${postId}/${index}.jpg`
S3Key(username, postId, index) == <<username, postId, index>>

\* `https://${bucketName}.s3.amazonaws.com/${key}`
S3Url(key) == [t |-> "string", s3 |-> key]

\* uploadImageToS3: the value it resolves to for each outcome of its two
\* awaits (axios.get, s3Client.send)
UploadOutcomes == {"ok", "download_failed", "put_failed"}

\* a catch block that returns nothing usable
uploadImageToS3NoFallback(imageUrl, username, postId, index, outcome) ==
    IF outcome = "ok" THEN S3Url(S3Key(username, postId, index))
    ELSE Str("")

uploadImageToS3(imageUrl, username, postId, index, outcome) ==
    IF outcome = "ok" THEN S3Url(S3Key(username, postId, index))
    ELSE imageUrl

\* post.shortCode || `post-${Date.now()}`
PostIdOf(post, ts) == Or(post.shortCode, [t |-> "string", gen |-> ts])

RandomSuffixes == {"r1", "r2"}

\* the object posts.push(...) appends
postOf(post, postImages, ts, rnd) ==
    [id |-> Or(post.id, [t |-> "string", gen |-> ts, rnd |-> rnd]),
     type |-> Or(post.type, Str("Post")),
     shortCode |-> Or(post.shortCode, Str("")),
     caption |-> Or(post.caption, Str("")),
     url |-> Or(post.url, [t |-> "string",
                            p |-> Or(post.shortCode, Str(""))]),
     commentsCount |-> Or(post.commentsCount, Num(0)),
     likesCount |-> Or(post.likesCount, Num(0)),
     timestamp |-> Or(post.timestamp, Iso(ts)),
     images |-> postImages,
     videos |-> Or(post.videoUrls, Arr(<<>>)),
     mentions |-> Or(post.mentions, Arr(<<>>)),
     hashtags |-> Or(post.hashtags, Arr(<<>>))]

imageOf(img, imageUrl) ==
    [url |-> imageUrl, width |-> Or(img.width, Num(0)),
     height |-> Or(img.height, Num(0))]

\* Array.prototype.unshift in place of push
Unshift(list, x) == <<x>> \o list

\* Array.prototype.push
Push(list, x) == Append(list, x)

\* one call of uploadImageToS3 as the run saw it: the post it was for
\* (0: the profile picture), the index it was given, the place of the image
\* in the output list, the source url, the object key and whether download
\* and bucket write both succeeded
Relocation(post, index, slot, src, key, outcome) ==
    [post |-> post, index |-> index, slot |-> slot, src |-> src,
     key |-> key, ok |-> outcome = "ok"]

(* ------------------------- document store ------------------------------ *)
\* documents whose user.username equals the filter value, in insertion order
Matching(coll, name) == {i \in 1..Len(coll) : coll[i].user.username = name}

\* collection.findOne({'user.username': username}); NoDoc stands for null
NoDoc == [t |-> "null"]

\* a query that forgets its filter: the first document of the collection
findOneUnfiltered(coll, name) ==
    IF coll = <<>> THEN NoDoc ELSE coll[1]

findOne(coll, name) ==
    LET m == Matching(coll, name)
    IN IF m = {} THEN NoDoc
       ELSE coll[CHOOSE i \in m : \A j \in m : i <= j]

\* the document after { $set: data }: the fields of data are assigned, every
\* other field of the stored document stays
SetFields(doc, data) ==
    [f \in DOMAIN doc \cup DOMAIN data |->
        IF f \in DOMAIN data THEN data[f] ELSE doc[f]]

\* updateOne without { upsert: true }: nothing is inserted
updateOneNoUpsert(coll, data) ==
    LET m == Matching(coll, data.user.username)
    IN IF m = {} THEN coll
       ELSE LET k == CHOOSE i \in m : \A j \in m : i <= j
            IN [coll EXCEPT ![k] = SetFields(coll[k], data)]

\* insertOne in place of the upsert
updateOneInsert(coll, data) == Append(coll, data)

\* collection.updateOne({'user.username': data.user.username},
\*                      {$set: data}, {upsert: true})
updateOne(coll, data) ==
    LET m == Matching(coll, data.user.username)
    IN IF m = {} THEN Append(coll, data)
       ELSE LET k == CHOOSE i \in m : \A j \in m : i <= j
            IN [coll EXCEPT ![k] = SetFields(coll[k], data)]

(* ------------------------------ state ---------------------------------- *)
VARIABLES
    envToken,      \* process.env.APIFY_API_TOKEN is set
    envS3,         \* AWS_ACCESS_KEY_ID and AWS_SECRET_ACCESS_KEY are set
    cachedClient,  \* mongodb.ts cachedClient is non-null
    cachedDb,      \* mongodb.ts cachedDb is non-null
    connectCalls,  \* number of client.connect() invocations
    profiles,      \* the `profiles` collection, in insertion order
    s3Objects,     \* keys written to the bucket
    now,           \* the clock read by new Date() / Date.now()
    started,       \* requests accepted so far
    live,          \* request handlers that may run
    inputs,        \* usernames the clients send
    provider,      \* datasets the provider may answer with
    req,           \* per handler: position, locals and what it has done
    ended          \* <<username, stored>> of every run that returned status
                   \* error or empty_or_private; stored: its upsert succeeded

vars == <<envToken, envS3, cachedClient, cachedDb, connectCalls, profiles,
          s3Objects, now, started, live, inputs, provider,
          req, ended>>

Procs == {"h1", "h2"}

\* a loop that allows one attempt too many
RetryLimitOffByOne == 5 + 1

\* retries < 5
RetryLimit == 5

NoResult == [t |-> "none"]

Idle == [pc |-> "idle", kind |-> "none", username |-> "", dbop |-> "none",
         retries |-> 0, items |-> <<>>, user |-> NoResult, posts |-> <<>>,
         postIdx |-> 0, imgIdx |-> 0, postImages |-> <<>>, data |-> NoResult,
         result |-> NoResult, resp |-> NoResult,
         \* what the handler has done so far
         scrapes |-> 0, actorCalls |-> 0, listCalls |-> 0, delays |-> 0,
         fetchOk |-> FALSE, fetchFails |-> 0, exhausted |-> FALSE, lookup |-> NoResult,
         records |-> -1, prior |-> {},
         writes |-> 0, persisted |-> NoResult, storeFailed |-> FALSE,
         unsaved |-> FALSE,
         downloaded |-> FALSE, uploaded |-> FALSE, relocs |-> <<>>]

Cached == cachedClient /\ cachedDb

\* the test left out, as in the earlier variant
S3ConfiguredAlways == TRUE

\* process.env.AWS_ACCESS_KEY_ID && process.env.AWS_SECRET_ACCESS_KEY
S3Configured == envS3

InitShared ==
    /\ envToken \in BOOLEAN
    /\ envS3 \in BOOLEAN
    /\ cachedClient = FALSE
    /\ cachedDb = FALSE
    /\ connectCalls = 0
    /\ profiles = <<>>
    /\ s3Objects = {}
    /\ now = 0
    /\ started = 0
    /\ req = [p \in Procs |-> Idle]
    /\ ended = {}

\* one request at a time
Init ==
    /\ InitShared
    /\ live = {"h1"}
    /\ inputs \in InputSets
    /\ provider \in Catalogs

\* the same program serving overlapping requests
InitConcurrent ==
    /\ InitShared
    /\ ~envS3
    /\ live = Procs
    /\ inputs = {"foo"}
    /\ provider = {<<>>, <<ProfileFoo>>}

\* one request at a time, against datasets with missing, odd and repeated
\* fields
InitRecords ==
    /\ InitShared
    /\ live = {"h1"}
    /\ inputs = {"foo"}
    /\ provider \in RecordCatalogs

(* ------------------- continuations between two awaits ------------------ *)
\* `await storeProfileData(data)` in the try block
Store(r, data) == [r EXCEPT !.data = data, !.pc = "enter_store"]

\* the catch block of scrapeInstagram up to its `await storeProfileData`
Catch(r, message) ==
    [r EXCEPT !.data = errorData(r.username, message, now),
              !.pc = "enter_catch"]

\* the 404 body of GET in /api/profile/[username]
NotFoundBody(r) ==
    [message |-> Str("Profile data not found"),
     user |-> DefaultUser(r.username, "Profile not found"),
     posts |-> <<>>,
     scrapedAt |-> Iso(now),
     status |-> "not_found"]

\* the 500 body of its catch block
FailureBody(r, message) ==
    [message |-> Str("Failed to retrieve profile data"),
     error |-> message,
     user |-> DefaultUser(r.username, "Error retrieving profile"),
     posts |-> <<>>,
     scrapedAt |-> Iso(now),
     status |-> "error"]

\* the 404 and 500 bodies of the GET kept in route.ts
RouteNotFoundBody == [message |-> Str("Profile data not found")]

RouteFailureBody(message) ==
    [message |-> Str("Failed to retrieve profile data"), error |-> message]

\* scrapeInstagram returns `data`; the endpoint that awaited it responds
\* (the locals of the finished call are dropped; `items` stays as the record
\* of what the provider answered)
Respond(r, data) ==
    [r EXCEPT !.result = data, !.pc = "done",
              !.user = NoResult, !.posts = <<>>, !.postIdx = 0, !.imgIdx = 0,
              !.data = NoResult, !.dbop = "none",
              !.resp = IF r.kind = "POST" \/ data # NoDoc
                       THEN [code |-> 200, body |-> data]
                       ELSE [code |-> 404,
                             body |-> IF r.kind = "ROUTEGET"
                                      THEN RouteNotFoundBody
                                      ELSE NotFoundBody(r)]]

\* const postItems = items.filter(...), then the for loop is entered
BeginPosts(r) ==
    IF FilterThrows(r.items, r.username)
    THEN Catch(r, Str("item.ownerUsername?.toLowerCase is not a function"))
    ELSE [r EXCEPT !.posts = <<>>, !.postIdx = 1, !.imgIdx = 1,
                   !.postImages = <<>>, !.pc = "posts"]

\* from `if (items.length === 0)` to the next await
\* (`retries` is dead after the loop; it and the loop's counters are cleared,
\* `exhausted` remembers that the loop ended by its bound)
AfterFetch(r0, items) ==
    LET r == [r0 EXCEPT !.items = items, !.exhausted = ~r0.fetchOk,
                        !.records = Len(items),
                        !.retries = 0, !.listCalls = 0, !.delays = 0,
                        !.fetchFails = 0]
        k == FindProfile(items, r.username)
    IN IF Len(items) = 0 THEN Store(r, emptyData(r.username, now))
       ELSE IF FindThrows(items, r.username)
       THEN Catch(r, Str("item.username?.toLowerCase is not a function"))
       ELSE IF k = 0 THEN Store(r, fallbackData(r.username, items, now))
       ELSE LET profile == items[k]
                ru == [r EXCEPT !.user = userOf(profile, r.username)]
            IN IF Truthy(profile.profilePicUrl) /\ S3Configured
               THEN [ru EXCEPT !.pc = "upload_pic"]
               ELSE BeginPosts(ru)

\* a call that waits for a job somebody else submitted
SubmitJobShared(r) ==
    IF \E q \in Procs : req[q].pc \in {"call", "fetch", "delay"}
                          /\ req[q].username = r.username
    THEN [r EXCEPT !.pc = "call"]
    ELSE [r EXCEPT !.pc = "call", !.actorCalls = @ + 1]

\* apifyClient.actor("apify/instagram-scraper").call(input) is sent
SubmitJob(r) == [r EXCEPT !.pc = "call", !.actorCalls = @ + 1]

\* the body of scrapeInstagram up to its first await
StartScrape(r0) ==
    LET r == [r0 EXCEPT !.scrapes = @ + 1]
    IN IF ~envToken THEN Catch(r, Str("API token not configured"))
       ELSE SubmitJob(r)

\* install the handler's next state; a continuation that ends in a store
\* call runs connectToDatabase up to its first await
Resume(p, r) ==
    IF r.pc \in {"enter_get", "enter_store", "enter_catch"}
    THEN /\ req' = [req EXCEPT ![p] =
                      [r EXCEPT !.dbop = IF r.pc = "enter_get" THEN "get"
                                         ELSE IF r.pc = "enter_store"
                                         THEN "store" ELSE "catch",
                                !.pc = IF Cached THEN "db_query"
                                       ELSE "db_connect"]]
         /\ connectCalls' = IF Cached THEN connectCalls ELSE connectCalls + 1
         /\ ended' = ended
         /\ now' = now
    ELSE /\ req' = [req EXCEPT ![p] = r]
         /\ connectCalls' = connectCalls
         /\ ended' = IF /\ r.pc = "done"
                        /\ r.result # NoResult
                        /\ r.result.status \in {"error", "empty_or_private"}
                     THEN ended \cup {<<r.username, r.persisted = r.result>>}
                     ELSE ended
         \* time passes between one response and the next request
         /\ now' = IF r.pc = "done" THEN now + 1 ELSE now

\* message of the error the MongoDB driver rejects with
DbError == Str("store unavailable")

\* an exception leaves connectToDatabase / the collection call
DbThrow(p, r, message) ==
    IF r.dbop = "get"
    THEN Resume(p, [r EXCEPT !.pc = "done",
                     !.resp = [code |-> 500,
                               body |-> IF r.kind = "ROUTEGET"
                                        THEN RouteFailureBody(message)
                                        ELSE FailureBody(r, message)]])
    ELSE IF r.dbop = "store"
    THEN Resume(p, Catch([r EXCEPT !.storeFailed = TRUE], message))
    ELSE Resume(p, Respond([r EXCEPT !.unsaved = TRUE], r.data))

(* ------------------------------ endpoints ------------------------------ *)
\* (prior: the runs for this username that had ended when the request came)
Fresh(kind, username) ==
    [Idle EXCEPT !.kind = kind, !.username = username,
                 !.prior = {e \in ended : e[1] = username}]

Accept(p) ==
    /\ p \in live
    /\ req[p].pc \in {"idle", "done"}
    /\ started < MaxRequests
    /\ started' = started + 1

\* POST /api/scrape: `if (!username)` answers 400, else scrapeInstagram
PostStart(p, username) ==
    /\ Accept(p)
    /\ IF ~Truthy(Str(username))
       THEN Resume(p, [Fresh("POST", username) EXCEPT !.pc = "done",
                         !.resp = [code |-> 400,
                                   body |-> [message |-> Str("Username is required")]]])
       ELSE Resume(p, StartScrape(Fresh("POST", username)))
    /\ UNCHANGED <<envToken, envS3, cachedClient, cachedDb, profiles,
                   s3Objects, live, inputs, provider>>

\* GET /api/profile/[username]: 400 without a username, else getProfileData
GetStart(p, username) ==
    /\ Accept(p)
    /\ IF ~Truthy(Str(username))
       THEN Resume(p, [Fresh("GET", username) EXCEPT !.pc = "done",
                         !.resp = [code |-> 400,
                                   body |-> [message |-> Str("Invalid username parameter")]]])
       ELSE Resume(p, [Fresh("GET", username) EXCEPT !.pc = "enter_get"])
    /\ UNCHANGED <<envToken, envS3, cachedClient, cachedDb, profiles,
                   s3Objects, live, inputs, provider>>

(* --------------------------- connectToDatabase ------------------------- *)
\* await client.connect() resolves; the ping is sent
ConnectOk(p) ==
    /\ req[p].pc = "db_connect"
    /\ req' = [req EXCEPT ![p].pc = "db_ping"]
    /\ UNCHANGED <<envToken, envS3, cachedClient, cachedDb, connectCalls,
                   profiles, s3Objects, now, started, live, inputs, provider, ended>>

ConnectFail(p) ==
    /\ req[p].pc = "db_connect"
    /\ DbThrow(p, req[p], DbError)
    /\ UNCHANGED <<envToken, envS3, cachedClient, cachedDb, profiles,
                   s3Objects, started, live, inputs, provider>>

\* a connectToDatabase that caches the client and forgets the db
PingOkClientOnly(p) ==
    /\ req[p].pc = "db_ping"
    /\ cachedClient' = TRUE
    /\ cachedDb' = cachedDb
    /\ req' = [req EXCEPT ![p].pc = "db_query"]
    /\ UNCHANGED <<envToken, envS3, connectCalls, profiles, s3Objects, now,
                   started, live, inputs, provider, ended>>

\* the ping resolves: both cache variables are assigned and the caller of
\* connectToDatabase issues its collection call
PingOk(p) ==
    /\ req[p].pc = "db_ping"
    /\ cachedClient' = TRUE
    /\ cachedDb' = TRUE
    /\ req' = [req EXCEPT ![p].pc = "db_query"]
    /\ UNCHANGED <<envToken, envS3, connectCalls, profiles, s3Objects, now,
                   started, live, inputs, provider, ended>>

PingFail(p) ==
    /\ req[p].pc = "db_ping"
    /\ DbThrow(p, req[p], DbError)
    /\ UNCHANGED <<envToken, envS3, cachedClient, cachedDb, profiles,
                   s3Objects, started, live, inputs, provider>>

(* ----------------------------- getProfileData -------------------------- *)
\* a read endpoint that ignores what it found
CacheHitNever(doc) == FALSE

\* a read endpoint that never scrapes
CacheHitAlways(doc) == TRUE

\* `if (mongoData)` in GET
CacheHit(doc) == doc # NoDoc

\* findOne resolves; a hit is the response, a miss starts scrapeInstagram
FindOk(p) ==
    LET r == req[p]
        doc == findOne(profiles, Str(r.username))
        rl == [r EXCEPT !.lookup = doc]
    IN /\ r.pc = "db_query"
       /\ r.dbop = "get"
       /\ IF CacheHit(doc)
          THEN Resume(p, [rl EXCEPT !.pc = "done",
                            !.resp = [code |-> 200, body |-> doc]])
          ELSE Resume(p, StartScrape(rl))
       /\ UNCHANGED <<envToken, envS3, cachedClient, cachedDb, profiles,
                      s3Objects, started, live, inputs, provider>>

FindFail(p) ==
    /\ req[p].pc = "db_query"
    /\ req[p].dbop = "get"
    /\ DbThrow(p, req[p], DbError)
    /\ UNCHANGED <<envToken, envS3, cachedClient, cachedDb, profiles,
                   s3Objects, started, live, inputs, provider>>

(* ---------------------------- storeProfileData ------------------------- *)
\* the server applies updateOne
UpdateApply(p) ==
    /\ req[p].pc = "db_query"
    /\ req[p].dbop \in {"store", "catch"}
    /\ profiles' = updateOne(profiles, req[p].data)
    /\ req' = [req EXCEPT ![p].pc = "db_ack", ![p].writes = @ + 1,
                          ![p].persisted = req[p].data]
    /\ UNCHANGED <<envToken, envS3, cachedClient, cachedDb, connectCalls,
                   s3Objects, now, started, live, inputs, provider, ended>>

\* updateOne resolves: storeProfileData returns and scrapeInstagram returns
\* the snapshot it stored
UpdateAck(p) ==
    /\ req[p].pc = "db_ack"
    /\ Resume(p, Respond(req[p], req[p].data))
    /\ UNCHANGED <<envToken, envS3, cachedClient, cachedDb, profiles,
                   s3Objects, started, live, inputs, provider>>

\* updateOne rejects: storeProfileData rethrows
UpdateFail(p) ==
    /\ req[p].pc = "db_query"
    /\ req[p].dbop \in {"store", "catch"}
    /\ DbThrow(p, req[p], DbError)
    /\ UNCHANGED <<envToken, envS3, cachedClient, cachedDb, profiles,
                   s3Objects, started, live, inputs, provider>>

(* ---------------------------- scrapeInstagram -------------------------- *)
ErrorMessages == {Str("actor run failed"), Undef}

\* apifyClient.actor(...).call(input) resolves; the first listItems is sent
CallOk(p) ==
    /\ req[p].pc = "call"
    /\ req' = [req EXCEPT ![p].pc = "fetch", ![p].retries = 0,
                          ![p].listCalls = @ + 1]
    /\ UNCHANGED <<envToken, envS3, cachedClient, cachedDb, connectCalls,
                   profiles, s3Objects, now, started, live, inputs, provider, ended>>

\* ... or rejects: the catch block runs
CallFail(p, message) ==
    /\ req[p].pc = "call"
    /\ Resume(p, Catch(req[p], message))
    /\ UNCHANGED <<envToken, envS3, cachedClient, cachedDb, profiles,
                   s3Objects, started, live, inputs, provider>>

\* listItems resolves: items = datasetItems; break
ListOk(p, items) ==
    /\ req[p].pc = "fetch"
    /\ Resume(p, AfterFetch([req[p] EXCEPT !.fetchOk = TRUE], items))
    /\ UNCHANGED <<envToken, envS3, cachedClient, cachedDb, profiles,
                   s3Objects, started, live, inputs, provider>>

\* listItems rejects: retries++ and the 5 second timer is started
ListFail(p) ==
    /\ req[p].pc = "fetch"
    /\ req' = [req EXCEPT ![p].pc = "delay", ![p].retries = @ + 1,
                          ![p].fetchFails = @ + 1, ![p].delays = @ + 1]
    /\ UNCHANGED <<envToken, envS3, cachedClient, cachedDb, connectCalls,
                   profiles, s3Objects, now, started, live, inputs, provider, ended>>

\* the timer fires: `while (retries < 5)` is evaluated again
DelayDone(p) ==
    /\ req[p].pc = "delay"
    /\ IF req[p].retries < RetryLimit
       THEN Resume(p, [req[p] EXCEPT !.pc = "fetch", !.listCalls = @ + 1])
       ELSE Resume(p, AfterFetch(req[p], <<>>))
    /\ UNCHANGED <<envToken, envS3, cachedClient, cachedDb, profiles,
                   s3Objects, started, live, inputs, provider>>

\* what an upload attempt adds to the bucket
Uploaded(key, outcome) == IF outcome = "ok" THEN {key} ELSE {}

\* await uploadImageToS3(profile.profilePicUrl, username, 'profile', 0)
UploadProfilePic(p, outcome) ==
    LET r == req[p]
        profile == r.items[FindProfile(r.items, r.username)]
        url == uploadImageToS3(profile.profilePicUrl, r.username,
                               Str("profile"), 0, outcome)
    IN /\ r.pc = "upload_pic"
       /\ s3Objects' = s3Objects \cup
              Uploaded(S3Key(r.username, Str("profile"), 0), outcome)
       /\ Resume(p, BeginPosts([r EXCEPT !.user.profilePicUrl = url,
              !.relocs = Append(@, Relocation(0, 0, 0, profile.profilePicUrl,
                                  S3Key(r.username, Str("profile"), 0),
                                  outcome)),
              !.downloaded = TRUE,
              !.uploaded = @ \/ outcome # "download_failed"]))
       /\ UNCHANGED <<envToken, envS3, cachedClient, cachedDb, profiles,
                      started, live, inputs, provider>>

\* the post and image the loop is at
CurPost(r) == postItems(r.items, r.username)[r.postIdx]

InPost(r) ==
    /\ r.pc = "posts"
    /\ r.postIdx <= Len(postItems(r.items, r.username))

AtImage(r) == InPost(r) /\ r.imgIdx <= Len(ImagesOf(CurPost(r)))

\* an image with a url while S3 is configured: uploadImageToS3 is awaited
\* and the image is pushed with the url it resolved to
RelocateImage(p, outcome) ==
    LET r == req[p]
        img == ImagesOf(CurPost(r))[r.imgIdx]
        postId == PostIdOf(CurPost(r), now)
        url == uploadImageToS3(img.url, r.username, postId, r.imgIdx - 1,
                               outcome)
    IN /\ AtImage(r)
       /\ Truthy(img.url)
       /\ S3Configured
       /\ s3Objects' = s3Objects \cup
              Uploaded(S3Key(r.username, postId, r.imgIdx - 1), outcome)
       /\ req' = [req EXCEPT ![p] = [r EXCEPT
              !.postImages = Push(@, imageOf(img, url)),
              !.relocs = Append(@, Relocation(r.postIdx, r.imgIdx - 1,
                                  Len(r.postImages) + 1, img.url,
                                  S3Key(r.username, postId, r.imgIdx - 1),
                                  outcome)),
              !.imgIdx = @ + 1,
              !.downloaded = TRUE,
              !.uploaded = @ \/ outcome # "download_failed"]]
       /\ UNCHANGED <<envToken, envS3, cachedClient, cachedDb, connectCalls,
                      profiles, now, started, live, inputs, provider, ended>>

\* an image without a url is skipped; without S3 the source url is kept
KeepImage(p) ==
    LET r == req[p]
        img == ImagesOf(CurPost(r))[r.imgIdx]
    IN /\ AtImage(r)
       /\ ~(Truthy(img.url) /\ S3Configured)
       /\ req' = [req EXCEPT ![p] = [r EXCEPT
              !.postImages = IF Truthy(img.url)
                             THEN Push(@, imageOf(img, img.url)) ELSE @,
              !.imgIdx = @ + 1]]
       /\ UNCHANGED <<envToken, envS3, cachedClient, cachedDb, connectCalls,
                      profiles, s3Objects, now, started, live, inputs, provider, ended>>

\* posts.push({...}) after the images of one post
PushPost(p, rnd) ==
    LET r == req[p]
    IN /\ InPost(r)
       /\ ~AtImage(r)
       /\ req' = [req EXCEPT ![p] = [r EXCEPT
              !.posts = Push(@, postOf(CurPost(r), r.postImages, now, rnd)),
              !.postIdx = @ + 1, !.imgIdx = 1, !.postImages = <<>>]]
       /\ UNCHANGED <<envToken, envS3, cachedClient, cachedDb, connectCalls,
                      profiles, s3Objects, now, started, live, inputs, provider, ended>>

\* after the loop: formattedData is built and stored
FinishPosts(p) ==
    LET r == req[p]
    IN /\ r.pc = "posts"
       /\ ~InPost(r)
       /\ Resume(p, Store(r, formattedData(r.user, r.posts, now)))
       /\ UNCHANGED <<envToken, envS3, cachedClient, cachedDb, profiles,
                      s3Objects, started, live, inputs, provider>>

(* --------------------------- specification ----------------------------- *)
Next ==
    \E p \in Procs :
        \/ \E u \in inputs : PostStart(p, u)
        \/ \E u \in inputs : GetStart(p, u)
        \/ ConnectOk(p)
        \/ ConnectFail(p)
        \/ PingOk(p)
        \/ PingFail(p)
        \/ FindOk(p)
        \/ FindFail(p)
        \/ UpdateApply(p)
        \/ UpdateAck(p)
        \/ UpdateFail(p)
        \/ CallOk(p)
        \/ \E m \in ErrorMessages : CallFail(p, m)
        \/ \E items \in provider : ListOk(p, items)
        \/ ListFail(p)
        \/ DelayDone(p)
        \/ \E o \in UploadOutcomes : UploadProfilePic(p, o)
        \/ \E o \in UploadOutcomes : RelocateImage(p, o)
        \/ KeepImage(p)
        \/ \E rnd \in RandomSuffixes : PushPost(p, rnd)
        \/ FinishPosts(p)

Spec == Init /\ [][Next]_vars

\* the steps two overlapping requests can take from InitConcurrent: without
\* S3 credentials and without post records no relocation is awaited and the
\* post loop has no iteration, so these are all the steps of Next that are
\* ever enabled there
NextConcurrent ==
    \E p \in Procs :
        \/ \E u \in inputs : PostStart(p, u)
        \/ \E u \in inputs : GetStart(p, u)
        \/ ConnectOk(p)
        \/ ConnectFail(p)
        \/ PingOk(p)
        \/ PingFail(p)
        \/ FindOk(p)
        \/ FindFail(p)
        \/ UpdateApply(p)
        \/ UpdateAck(p)
        \/ UpdateFail(p)
        \/ CallOk(p)
        \/ \E m \in ErrorMessages : CallFail(p, m)
        \/ \E items \in provider : ListOk(p, items)
        \/ ListFail(p)
        \/ DelayDone(p)
        \/ FinishPosts(p)

SpecConcurrent == InitConcurrent /\ [][NextConcurrent]_vars

SpecRecords == InitRecords /\ [][Next]_vars

(* ------------- scrapeInstagram, the earlier variant -------------------- *)
(* The second scrapeInstagram of instagram-scraper.ts: 3 fetch attempts,   *)
(* a placeholder storeInMongoDB that stores nothing, no test of the S3     *)
(* configuration, and a catch block that returns without storing.          *)

\* retries < 3
EarlierRetryLimit == 3

\* emptyData of the earlier variant has no error field
EarlierEmptyData(username, ts) ==
    [user |-> DefaultUser(username,
         "No data available. This account may be private or not exist."),
     posts |-> <<>>, scrapedAt |-> Iso(ts), status |-> "empty_or_private"]

\* the object returned when items.find(...) finds nothing
EarlierNoProfile(ts) ==
    [user |-> [t |-> "null"], posts |-> <<>>, scrapedAt |-> Iso(ts),
     status |-> "no_profile_found"]

\* biography: `Error retrieving data: ${error.message}`, error: error.message
EarlierErrorData(username, message, ts) ==
    [user |-> [DefaultUser(username, "") EXCEPT
                  !.biography = [t |-> "string", err |-> message]],
     posts |-> <<>>, scrapedAt |-> Iso(ts), status |-> "error",
     error |-> message]

\* items.find(item => item.username && !item.shortCode)
EarlierFindProfile(items) ==
    LET hits == {i \in 1..Len(items) :
                    Truthy(items[i].username) /\ ~Truthy(items[i].shortCode)}
    IN IF hits = {} THEN 0 ELSE CHOOSE i \in hits : \A j \in hits : i <= j

\* the user literal: profilePicUrl is assigned afterwards
EarlierUserOf(profile) ==
    [username |-> Or(profile.username, Str("")),
     fullName |-> Or(profile.fullName, Str("")),
     biography |-> Or(profile.biography, Str("")),
     followersCount |-> Or(profile.followersCount, Num(0)),
     followingCount |-> Or(profile.followingCount, Num(0)),
     externalUrl |-> Or(profile.externalUrl, Str("")),
     verified |-> Or(profile.verified, Bool(FALSE))]

\* user.profilePicUrl = url
WithProfilePic(user, url) ==
    [f \in DOMAIN user \cup {"profilePicUrl"} |->
        IF f = "profilePicUrl" THEN url ELSE user[f]]

\* items.filter(item => item.type === 'Post' || item.shortCode)
EarlierPostItems(items) ==
    LET Keep(item) == item.type = Str("Post") \/ Truthy(item.shortCode)
    IN SelectSeq(items, Keep)

\* scrapeInstagram returns `data` (nothing was stored)
EarlierReturn(r, data) ==
    [r EXCEPT !.result = data, !.pc = "done",
              !.user = NoResult, !.posts = <<>>, !.postIdx = 0, !.imgIdx = 0]

EarlierBeginPosts(r) ==
    [r EXCEPT !.posts = <<>>, !.postIdx = 1, !.imgIdx = 1,
              !.postImages = <<>>, !.pc = "posts"]

\* from `if (items.length === 0)` to the next await that can fail
EarlierAfterFetch(r0, items) ==
    LET r == [r0 EXCEPT !.items = items, !.exhausted = ~r0.fetchOk,
                        !.records = Len(items), !.retries = 0,
                        !.listCalls = 0, !.delays = 0, !.fetchFails = 0]
        k == EarlierFindProfile(items)
    IN IF Len(items) = 0
       THEN EarlierReturn(r, EarlierEmptyData(r.username, now))
       ELSE IF k = 0 THEN EarlierReturn(r, EarlierNoProfile(now))
       ELSE LET ru == [r EXCEPT !.user = EarlierUserOf(items[k])]
            IN IF Truthy(items[k].profilePicUrl)
               THEN [ru EXCEPT !.pc = "upload_pic"]
               ELSE EarlierBeginPosts(
                        [ru EXCEPT !.user = WithProfilePic(@, Str(""))])

EarlierInstall(p, r) ==
    /\ req' = [req EXCEPT ![p] = r]
    /\ now' = IF r.pc = "done" THEN now + 1 ELSE now

\* scrapeInstagram(username) is called
EarlierStart(p, username) ==
    LET r == [Fresh("CALL", username) EXCEPT !.scrapes = 1]
    IN /\ Accept(p)
       /\ IF ~envToken
          THEN EarlierInstall(p, EarlierReturn(r,
                   EarlierErrorData(username, Str("API token not configured"),
                                    now)))
          ELSE EarlierInstall(p, [r EXCEPT !.pc = "call", !.actorCalls = 1])
       /\ UNCHANGED <<envToken, envS3, cachedClient, cachedDb, connectCalls,
                      profiles, s3Objects, live, inputs, provider, ended>>

EarlierCallOk(p) ==
    /\ req[p].pc = "call"
    /\ EarlierInstall(p, [req[p] EXCEPT !.pc = "fetch", !.retries = 0,
                                        !.listCalls = @ + 1])
    /\ UNCHANGED <<envToken, envS3, cachedClient, cachedDb, connectCalls,
                   profiles, s3Objects, started, live, inputs, provider, ended>>

EarlierCallFail(p, message) ==
    /\ req[p].pc = "call"
    /\ EarlierInstall(p, EarlierReturn(req[p],
           EarlierErrorData(req[p].username, message, now)))
    /\ UNCHANGED <<envToken, envS3, cachedClient, cachedDb, connectCalls,
                   profiles, s3Objects, started, live, inputs, provider, ended>>

EarlierListOk(p, items) ==
    /\ req[p].pc = "fetch"
    /\ EarlierInstall(p, EarlierAfterFetch([req[p] EXCEPT !.fetchOk = TRUE],
                                           items))
    /\ UNCHANGED <<envToken, envS3, cachedClient, cachedDb, connectCalls,
                   profiles, s3Objects, started, live, inputs, provider, ended>>

EarlierListFail(p) ==
    /\ req[p].pc = "fetch"
    /\ EarlierInstall(p, [req[p] EXCEPT !.pc = "delay", !.retries = @ + 1,
                             !.fetchFails = @ + 1, !.delays = @ + 1])
    /\ UNCHANGED <<envToken, envS3, cachedClient, cachedDb, connectCalls,
                   profiles, s3Objects, started, live, inputs, provider, ended>>

EarlierDelayDone(p) ==
    /\ req[p].pc = "delay"
    /\ IF req[p].retries < EarlierRetryLimit
       THEN EarlierInstall(p, [req[p] EXCEPT !.pc = "fetch",
                                             !.listCalls = @ + 1])
       ELSE EarlierInstall(p, EarlierAfterFetch(req[p], <<>>))
    /\ UNCHANGED <<envToken, envS3, cachedClient, cachedDb, connectCalls,
                   profiles, s3Objects, started, live, inputs, provider, ended>>

\* user.profilePicUrl = await uploadImageToS3(...)
EarlierUploadProfilePic(p, outcome) ==
    LET r == req[p]
        profile == r.items[EarlierFindProfile(r.items)]
        url == uploadImageToS3(profile.profilePicUrl, r.username,
                               Str("profile"), 0, outcome)
    IN /\ r.pc = "upload_pic"
       /\ s3Objects' = s3Objects \cup
              Uploaded(S3Key(r.username, Str("profile"), 0), outcome)
       /\ EarlierInstall(p, EarlierBeginPosts(
              [r EXCEPT !.user = WithProfilePic(@, url),
                        !.relocs = Append(@, Relocation(0, 0, 0,
                                      profile.profilePicUrl,
                                      S3Key(r.username, Str("profile"), 0),
                                      outcome)),
                        !.downloaded = TRUE,
                        !.uploaded = @ \/ outcome # "download_failed"]))
       /\ UNCHANGED <<envToken, envS3, cachedClient, cachedDb, connectCalls,
                      profiles, started, live, inputs, provider, ended>>

EarlierCurPost(r) == EarlierPostItems(r.items)[r.postIdx]

EarlierInPost(r) ==
    r.pc = "posts" /\ r.postIdx <= Len(EarlierPostItems(r.items))

EarlierAtImage(r) ==
    EarlierInPost(r) /\ r.imgIdx <= Len(ImagesOf(EarlierCurPost(r)))

\* an image with a url is always uploaded
EarlierRelocateImage(p, outcome) ==
    LET r == req[p]
        img == ImagesOf(EarlierCurPost(r))[r.imgIdx]
        postId == PostIdOf(EarlierCurPost(r), now)
        url == uploadImageToS3(img.url, r.username, postId, r.imgIdx - 1,
                               outcome)
    IN /\ EarlierAtImage(r)
       /\ Truthy(img.url)
       /\ s3Objects' = s3Objects \cup
              Uploaded(S3Key(r.username, postId, r.imgIdx - 1), outcome)
       /\ EarlierInstall(p, [r EXCEPT
              !.postImages = Push(@, imageOf(img, url)),
              !.relocs = Append(@, Relocation(r.postIdx, r.imgIdx - 1,
                                  Len(r.postImages) + 1, img.url,
                                  S3Key(r.username, postId, r.imgIdx - 1),
                                  outcome)),
              !.imgIdx = @ + 1,
              !.downloaded = TRUE,
              !.uploaded = @ \/ outcome # "download_failed"])
       /\ UNCHANGED <<envToken, envS3, cachedClient, cachedDb, connectCalls,
                      profiles, started, live, inputs, provider, ended>>

EarlierSkipImage(p) ==
    LET r == req[p]
    IN /\ EarlierAtImage(r)
       /\ ~Truthy(ImagesOf(EarlierCurPost(r))[r.imgIdx].url)
       /\ EarlierInstall(p, [r EXCEPT !.imgIdx = @ + 1])
       /\ UNCHANGED <<envToken, envS3, cachedClient, cachedDb, connectCalls,
                      profiles, s3Objects, started, live, inputs, provider, ended>>

EarlierPushPost(p, rnd) ==
    LET r == req[p]
    IN /\ EarlierInPost(r)
       /\ ~EarlierAtImage(r)
       /\ EarlierInstall(p, [r EXCEPT
              !.posts = Push(@, postOf(EarlierCurPost(r), r.postImages,
                                       now, rnd)),
              !.postIdx = @ + 1, !.imgIdx = 1, !.postImages = <<>>])
       /\ UNCHANGED <<envToken, envS3, cachedClient, cachedDb, connectCalls,
                      profiles, s3Objects, started, live, inputs, provider, ended>>

\* formattedData is built, storeInMongoDB logs, the function returns
EarlierFinishPosts(p) ==
    LET r == req[p]
    IN /\ r.pc = "posts"
       /\ ~EarlierInPost(r)
       /\ EarlierInstall(p, EarlierReturn(r,
              formattedData(r.user, r.posts, now)))
       /\ UNCHANGED <<envToken, envS3, cachedClient, cachedDb, connectCalls,
                      profiles, s3Objects, started, live, inputs, provider, ended>>

NextEarlier ==
    \E p \in Procs :
        \/ \E u \in inputs : EarlierStart(p, u)
        \/ EarlierCallOk(p)
        \/ \E m \in ErrorMessages : EarlierCallFail(p, m)
        \/ \E items \in provider : EarlierListOk(p, items)
        \/ EarlierListFail(p)
        \/ EarlierDelayDone(p)
        \/ \E o \in UploadOutcomes : EarlierUploadProfilePic(p, o)
        \/ \E o \in UploadOutcomes : EarlierRelocateImage(p, o)
        \/ EarlierSkipImage(p)
        \/ \E rnd \in RandomSuffixes : EarlierPushPost(p, rnd)
        \/ EarlierFinishPosts(p)

SpecEarlier == Init /\ [][NextEarlier]_vars

(* ------------------- POST of route.ts and formatScrapedData ------------- *)
(* The submit endpoint of route.ts: one actor call, one listItems, no      *)
(* retry, formatScrapedData, storeInS3, a local file, then the response.   *)

\* items.find(item => item.username)
RouteFindProfile(items) ==
    LET hits == {i \in 1..Len(items) : Truthy(items[i].username)}
    IN IF hits = {} THEN 0 ELSE CHOOSE i \in hits : \A j \in hits : i <= j

\* the user literal: every field is copied as it is
RouteUserOf(profile) == [f \in ProfileFieldNames |-> profile[f]]

\* post.images?.map(img => ({url, width, height})) || []
RouteImagesOf(post) ==
    IF post.images.t = "array"
    THEN [i \in 1..Len(post.images.a) |->
             [url |-> post.images.a[i].url, width |-> post.images.a[i].width,
              height |-> post.images.a[i].height]]
    ELSE <<>>

RoutePostOf(post) ==
    [id |-> post.id, type |-> post.type, shortCode |-> post.shortCode,
     caption |-> post.caption, url |-> post.url,
     commentsCount |-> post.commentsCount, likesCount |-> post.likesCount,
     timestamp |-> post.timestamp, images |-> RouteImagesOf(post),
     videos |-> Or(post.videoUrls, Arr(<<>>)),
     mentions |-> Or(post.mentions, Arr(<<>>)),
     hashtags |-> Or(post.hashtags, Arr(<<>>))]

\* items.filter(item => item.type === 'Post').map(...)
RoutePosts(items) ==
    LET IsPost(item) == item.type = Str("Post")
        kept == SelectSeq(items, IsPost)
    IN [k \in 1..Len(kept) |-> RoutePostOf(kept[k])]

formatScrapedData(items, ts) ==
    LET k == RouteFindProfile(items)
    IN IF k = 0 THEN [user |-> [t |-> "null"], posts |-> <<>>]
       ELSE [user |-> RouteUserOf(items[k]), posts |-> RoutePosts(items),
             scrapedAt |-> Iso(ts)]

\* the catch block of POST: { message: 'Scraping failed', error }, 500
RouteFail(r) ==
    [r EXCEPT !.pc = "done", !.data = NoResult,
              !.resp = [code |-> 500,
                        body |-> [message |-> Str("Scraping failed"),
                                  error |-> [t |-> "object"]]]]

\* request.json() rejects: the body is not JSON
RouteBadBody(p) ==
    /\ Accept(p)
    /\ EarlierInstall(p, RouteFail(Fresh("ROUTE", "")))
    /\ UNCHANGED <<envToken, envS3, cachedClient, cachedDb, connectCalls,
                   profiles, s3Objects, live, inputs, provider, ended>>

\* `if (!username)` answers 400, else the actor is called
RouteStart(p, username) ==
    /\ Accept(p)
    /\ IF ~Truthy(Str(username))
       THEN EarlierInstall(p, [Fresh("ROUTE", username) EXCEPT !.pc = "done",
                !.resp = [code |-> 400,
                          body |-> [message |-> Str("Username is required")]]])
       ELSE EarlierInstall(p, [Fresh("ROUTE", username) EXCEPT
                !.pc = "call", !.actorCalls = 1])
    /\ UNCHANGED <<envToken, envS3, cachedClient, cachedDb, connectCalls,
                   profiles, s3Objects, live, inputs, provider, ended>>

RouteCallOk(p) ==
    /\ req[p].kind = "ROUTE"
    /\ req[p].pc = "call"
    /\ EarlierInstall(p, [req[p] EXCEPT !.pc = "fetch", !.listCalls = 1])
    /\ UNCHANGED <<envToken, envS3, cachedClient, cachedDb, connectCalls,
                   profiles, s3Objects, started, live, inputs, provider, ended>>

RouteCallFail(p) ==
    /\ req[p].kind = "ROUTE"
    /\ req[p].pc = "call"
    /\ EarlierInstall(p, RouteFail(req[p]))
    /\ UNCHANGED <<envToken, envS3, cachedClient, cachedDb, connectCalls,
                   profiles, s3Objects, started, live, inputs, provider, ended>>

\* listItems resolves: formatScrapedData(items), then storeInS3 is awaited
RouteListOk(p, items) ==
    /\ req[p].kind = "ROUTE"
    /\ req[p].pc = "fetch"
    /\ EarlierInstall(p, [req[p] EXCEPT !.pc = "put", !.items = items,
                             !.records = Len(items),
                             !.data = formatScrapedData(items, now)])
    /\ UNCHANGED <<envToken, envS3, cachedClient, cachedDb, connectCalls,
                   profiles, s3Objects, started, live, inputs, provider, ended>>

RouteListFail(p) ==
    /\ req[p].kind = "ROUTE"
    /\ req[p].pc = "fetch"
    /\ EarlierInstall(p, RouteFail(req[p]))
    /\ UNCHANGED <<envToken, envS3, cachedClient, cachedDb, connectCalls,
                   profiles, s3Objects, started, live, inputs, provider, ended>>

\* storeInS3 resolves (key `profiles/${username}/${ISO time}.json`); the
\* local file is written or not, and { success: true, data } is the answer
RoutePutOk(p) ==
    LET r == req[p]
    IN /\ r.kind = "ROUTE"
       /\ r.pc = "put"
       /\ s3Objects' = s3Objects \cup {<<"profiles", r.username, now>>}
       /\ EarlierInstall(p, [r EXCEPT !.pc = "done", !.result = r.data,
                                !.data = NoResult, !.uploaded = TRUE,
                                !.resp = [code |-> 200,
                                          body |-> [success |-> Bool(TRUE),
                                                    data |-> r.data]]])
       /\ UNCHANGED <<envToken, envS3, cachedClient, cachedDb, connectCalls,
                      profiles, started, live, inputs, provider, ended>>

\* storeInS3 rethrows
RoutePutFail(p) ==
    /\ req[p].kind = "ROUTE"
    /\ req[p].pc = "put"
    /\ EarlierInstall(p, RouteFail(req[p]))
    /\ UNCHANGED <<envToken, envS3, cachedClient, cachedDb, connectCalls,
                   profiles, s3Objects, started, live, inputs, provider, ended>>

\* GET of route.ts: 400 without a username, else getProfileData
RouteGetStart(p, username) ==
    /\ Accept(p)
    /\ IF ~Truthy(Str(username))
       THEN Resume(p, [Fresh("ROUTEGET", username) EXCEPT !.pc = "done",
                         !.resp = [code |-> 400,
                                   body |-> [message |-> Str("Invalid username parameter")]]])
       ELSE Resume(p, [Fresh("ROUTEGET", username) EXCEPT !.pc = "enter_get"])
    /\ UNCHANGED <<envToken, envS3, cachedClient, cachedDb, profiles,
                   s3Objects, live, inputs, provider>>

\* the read endpoint of route.ts in front of getProfileData and
\* scrapeInstagram
NextRouteGet ==
    \E p \in Procs :
        \/ \E u \in inputs : RouteGetStart(p, u)
        \/ ConnectOk(p)
        \/ ConnectFail(p)
        \/ PingOk(p)
        \/ PingFail(p)
        \/ FindOk(p)
        \/ FindFail(p)
        \/ UpdateApply(p)
        \/ UpdateAck(p)
        \/ UpdateFail(p)
        \/ CallOk(p)
        \/ \E m \in ErrorMessages : CallFail(p, m)
        \/ \E items \in provider : ListOk(p, items)
        \/ ListFail(p)
        \/ DelayDone(p)
        \/ \E o \in UploadOutcomes : UploadProfilePic(p, o)
        \/ \E o \in UploadOutcomes : RelocateImage(p, o)
        \/ KeepImage(p)
        \/ \E rnd \in RandomSuffixes : PushPost(p, rnd)
        \/ FinishPosts(p)

SpecRouteGet == Init /\ [][NextRouteGet]_vars

NextRoute ==
    \E p \in Procs :
        \/ RouteBadBody(p)
        \/ \E u \in inputs : RouteStart(p, u)
        \/ RouteCallOk(p)
        \/ RouteCallFail(p)
        \/ \E items \in provider : RouteListOk(p, items)
        \/ RouteListFail(p)
        \/ RoutePutOk(p)
        \/ RoutePutFail(p)

SpecRoute == Init /\ [][NextRoute]_vars

(* ------------------------------ properties ----------------------------- *)
ProfileFields == {"username", "fullName", "biography", "followersCount",
                  "followingCount", "profilePicUrl", "externalUrl",
                  "verified"}

Statuses == {"success", "empty_or_private", "partial_data", "error",
             "not_found"}

\* scrapeInstagram has returned to the endpoint that called it
Returned(r) == r.pc = "done" /\ r.result # NoResult

\* String.prototype.trim on the strings of the model
Trim(s) == IF s = " " THEN "" ELSE s

\* the collection has a document under d's username carrying every field of d
Holds(coll, d) ==
    LET doc == findOne(coll, d.user.username)
    IN /\ doc # NoDoc
       /\ \A f \in DOMAIN d : f \in DOMAIN doc /\ doc[f] = d[f]

\* the shape C1 asks of a returned value
WellFormed(v) ==
    /\ {"user", "posts", "scrapedAt", "status"} \subseteq DOMAIN v
    /\ v.user # [t |-> "null"]
    /\ ProfileFields \subseteq DOMAIN v.user
    /\ DOMAIN v.posts = 1..Len(v.posts)
    /\ v.status \in Statuses

\* C1: for a non-empty username, whatever the external steps do,
\* scrapeInstagram returns (it never throws) a value with a non-null user
\* carrying the eight Profile fields, a posts list, scrapedAt and a status
\* among success, empty_or_private, partial_data, error, not_found.
C1_ReturnsSnapshot ==
    \A p \in Procs :
        LET r == req[p]
        IN (r.pc = "done" /\ r.scrapes > 0 /\ r.username # "") =>
              r.result # NoResult /\ WellFormed(r.result)

\* C2: a submit request whose username is empty or only whitespace is
\* answered 4xx and submits no job, fetches nothing and writes nothing.
C2_BlankUsernameRejected ==
    \A p \in Procs :
        LET r == req[p]
        IN (r.kind = "POST" /\ Trim(r.username) = "") =>
              /\ r.actorCalls = 0
              /\ r.listCalls = 0
              /\ r.writes = 0
              /\ r.pc = "done" => r.resp.code \in 400..499

\* C3: without APIFY_API_TOKEN the submit endpoint answers 5xx, not 2xx.
C3_NotConfiguredIs5xx ==
    \A p \in Procs :
        LET r == req[p]
        IN (~envToken /\ r.kind = "POST" /\ r.scrapes > 0 /\ r.pc = "done")
              => r.resp.code \in 500..599

\* C4: a run whose fetch step ended with zero records returns status
\* empty_or_private, no posts, the requested username and 0 followers,
\* whatever the store write does.
C4_EmptyFetchGivesEmptyStatus ==
    \A p \in Procs :
        LET r == req[p]
        IN (Returned(r) /\ r.records = 0) =>
              /\ r.result.status = "empty_or_private"
              /\ r.result.posts = <<>>
              /\ r.result.user.username = Str(r.username)
              /\ r.result.user.followersCount = Num(0)

\* C5: listItems is called at most 5 times in a run, never again after an
\* attempt succeeded, and a run whose 5 attempts all threw goes on with no
\* records and returns a snapshot built on the empty-result path.
C5_BoundedFetchRetry ==
    \A p \in Procs :
        LET r == req[p]
        IN /\ r.listCalls <= 5
           /\ r.fetchFails <= 5
           /\ r.fetchOk => r.pc \notin {"fetch", "delay"}
           /\ r.pc = "fetch" => r.listCalls = r.fetchFails + 1
           /\ r.exhausted =>
                 /\ ~r.fetchOk
                 /\ r.records = 0
                 /\ r.pc \in {"db_connect", "db_ping", "db_query", "db_ack",
                              "done"}
                 /\ (r.pc # "done" /\ ~r.storeFailed) =>
                        r.data.status = "empty_or_private"
                 /\ r.pc = "done" =>
                        /\ r.result # NoResult
                        /\ r.resp.code = 200
                        /\ r.result.status =
                              IF r.storeFailed THEN "error"
                              ELSE "empty_or_private"

C5_Witness ==
    \E p \in Procs :
        /\ req[p].exhausted
        /\ Returned(req[p])
        /\ req[p].result.status = "empty_or_private"

C8_ScrapeIffMiss ==
    \A p \in Procs :
        LET r == req[p]
        IN r.kind = "GET" =>
              /\ r.scrapes = IF r.lookup = NoDoc THEN 1 ELSE 0
              /\ r.scrapes = 0 => r.actorCalls = 0 /\ r.result = NoResult
              /\ (r.pc = "done" /\ r.lookup \notin {NoDoc, NoResult}) =>
                    /\ r.resp = [code |-> 200, body |-> r.lookup]
                    /\ r.lookup.user.username = Str(r.username)
              /\ (r.pc = "done" /\ r.lookup = NoDoc) =>
                    /\ r.result # NoResult
                    /\ r.resp = [code |-> 200, body |-> r.result]

C8_Witness ==
    \E p \in Procs :
        /\ req[p].kind = "GET"
        /\ req[p].pc = "done"
        /\ req[p].lookup = NoDoc
        /\ req[p].scrapes = 1
        /\ req[p].resp.body = req[p].result

\* C9: after storeProfileData(S1) then storeProfileData(S2) for one
\* username, the stored document is exactly S2.
C9_UpsertOverwrites ==
    \A p \in Procs :
        req[p].pc = "db_ack" =>
            findOne(profiles, req[p].data.user.username) = req[p].data

\* snapshots a second storeProfileData call may be given
ProbeSnapshots ==
    {emptyData("foo", now), errorData("Foo", Undef, now),
     formattedData(userOf(ProfileFoo, "foo"), <<>>, now)}
    \cup {req[p].data : p \in {q \in Procs : req[q].pc = "db_ack"}}

C11_AbsentIsNull ==
    \A p \in Procs :
        LET r == req[p]
        IN r.kind = "GET" =>
              /\ (r.lookup = NoDoc /\ r.writes = 0) =>
                     Matching(profiles, Str(r.username)) = {}
              /\ r.lookup \notin {NoDoc, NoResult} =>
                     /\ r.lookup.user.username = Str(r.username)
                     /\ r.lookup = findOne(profiles, Str(r.username))
              /\ (r.pc = "done" /\ r.username # "") =>
                     (r.resp.code = 500 <=> r.lookup = NoResult)
              /\ (r.lookup = NoResult /\ r.username # "") =>
                     r.pc \in {"db_connect", "db_ping", "db_query", "done"}

C11_Witness ==
    \E p \in Procs :
        /\ req[p].kind = "GET"
        /\ req[p].lookup = NoDoc
        /\ req[p].pc = "call"
        /\ profiles # <<>>

\* the url the snapshot v carries at the place relocation e was for
UrlAt(v, e) ==
    IF e.post = 0 THEN v.user.profilePicUrl
    ELSE v.posts[e.post].images[e.slot].url

\* the url the provider's records carry at the place relocation e was for
SourceAt(r, e) ==
    IF e.post = 0 THEN r.items[FindProfile(r.items, r.username)].profilePicUrl
    ELSE ImagesOf(postItems(r.items, r.username)[e.post])[e.index + 1].url

IsS3Url(u) == "s3" \in DOMAIN u

\* C12: a relocation whose download or bucket write failed gives back the
\* source url unchanged, a relocation never throws, and a run in which
\* nothing but relocations failed returns status success.
C12_RelocationFailureKeepsUrl ==
    \A p \in Procs :
        LET r == req[p]
        IN /\ r.relocs # <<>> =>
                 r.pc \in {"posts", "db_connect", "db_ping", "db_query",
                            "db_ack", "done"}
           /\ (Returned(r) /\ r.relocs # <<>> /\ ~r.storeFailed) =>
                 /\ r.result.status = "success"
                 /\ \A i \in 1..Len(r.relocs) :
                        LET e == r.relocs[i]
                        IN /\ e.src = SourceAt(r, e)
                           /\ ~e.ok => UrlAt(r.result, e) = e.src
                           /\ e.ok => IsS3Url(UrlAt(r.result, e))

C12_Witness ==
    \E p \in Procs :
        /\ Returned(req[p])
        /\ req[p].result.status = "success"
        /\ req[p].uploaded
        /\ Len(req[p].relocs) = 4
        /\ \E i \in 1..4 : req[p].relocs[i].ok
        /\ \E i, j \in 1..4 : i # j /\ ~req[p].relocs[i].ok
                                      /\ ~req[p].relocs[j].ok

\* the images of a provider record that carry a url, in the record's order
SourceImages(post) ==
    LET HasUrl(img) == Truthy(img.url) IN SelectSeq(ImagesOf(post), HasUrl)

\* the urls of the output post `out` are those of the provider record `post`
SameUrls(out, post) ==
    /\ Len(out.images) = Len(SourceImages(post))
    /\ \A j \in 1..Len(out.images) :
          out.images[j].url = SourceImages(post)[j].url

\* C13: without the S3 credentials a run downloads nothing and writes
\* nothing to the bucket, and the profile picture url and every image url of
\* the snapshot it returns are the urls of the provider's records.
C13_NoCredentialsKeepsUrls ==
    ~envS3 =>
        /\ s3Objects = {}
        /\ \A p \in Procs :
              LET r == req[p]
                  src == postItems(r.items, r.username)
              IN /\ ~r.downloaded /\ ~r.uploaded /\ r.relocs = <<>>
                 /\ r.pc # "upload_pic"
                 /\ (Returned(r) /\ r.result.status = "success") =>
                       /\ r.result.user.profilePicUrl =
                             Or(r.items[FindProfile(r.items, r.username)]
                                    .profilePicUrl, Str(""))
                       /\ Len(r.result.posts) = Len(src)
                       /\ \A k \in 1..Len(src) :
                             SameUrls(r.result.posts[k], src[k])
                 /\ (Returned(r) /\ r.result.status = "partial_data") =>
                       r.result.user.profilePicUrl =
                           Or(r.items[1].profilePicUrl, Str(""))

C13_Witness ==
    \E p \in Procs :
        /\ ~envS3
        /\ Returned(req[p])
        /\ req[p].result.status = "success"
        /\ req[p].result.user.profilePicUrl = Str("http://cdn/pic.png")
        /\ Len(req[p].result.posts) = 2
        /\ Len(req[p].result.posts[2].images) = 2

\* the 0-based positions of the images of a provider record that carry a url
SourceIndexes(post) ==
    LET all == [i \in 1..Len(ImagesOf(post)) |-> i - 1]
        HasUrl(i) == Truthy(ImagesOf(post)[i + 1].url)
    IN SelectSeq(all, HasUrl)

\* the j-th image of the output post comes from the j-th url-bearing image
\* of the provider record: it has its source url, or the bucket url made
\* for its position
InSourceOrder(out, post) ==
    /\ Len(out.images) = Len(SourceIndexes(post))
    /\ \A j \in 1..Len(out.images) :
          LET i == SourceIndexes(post)[j]
              u == out.images[j].url
          IN IF IsS3Url(u) THEN u.s3[3] = i
             ELSE u = ImagesOf(post)[i + 1].url

\* relocation a was issued for an earlier place than relocation b
Before(a, b) == a.post < b.post \/ (a.post = b.post /\ a.index < b.index)

\* C14: the images of an output post are in the order of the source
\* record's images, the relocations of a run are issued in that order, and
\* the output posts are in the order of the filtered provider records.
C14_SourceOrderKept ==
    \A p \in Procs :
        LET r == req[p]
            src == postItems(r.items, r.username)
        IN /\ \A i, j \in 1..Len(r.relocs) :
                 i < j => Before(r.relocs[i], r.relocs[j])
           /\ r.pc = "posts" =>
                 /\ Len(r.posts) = r.postIdx - 1
                 /\ \A k \in 1..Len(r.posts) :
                       /\ r.posts[k].shortCode = Or(src[k].shortCode, Str(""))
                       /\ InSourceOrder(r.posts[k], src[k])
           /\ (Returned(r) /\ r.result.status = "success") =>
                 /\ Len(r.result.posts) = Len(src)
                 /\ \A k \in 1..Len(src) :
                       /\ r.result.posts[k].id = src[k].id
                       /\ r.result.posts[k].shortCode =
                             Or(src[k].shortCode, Str(""))
                       /\ InSourceOrder(r.result.posts[k], src[k])

C14_Witness ==
    \E p \in Procs :
        /\ Returned(req[p])
        /\ req[p].result.status = "success"
        /\ Len(req[p].result.posts) = 2
        /\ Len(req[p].result.posts[2].images) = 2
        /\ Len(req[p].relocs) = 4
        /\ IsS3Url(req[p].result.posts[2].images[2].url)

\* the documented default of each Profile field
DefaultOf(f) ==
    IF f \in {"followersCount", "followingCount"} THEN Num(0)
    ELSE IF f = "verified" THEN Bool(FALSE)
    ELSE Str("")

\* C15: when the provider returned records and none of them matches the
\* profile heuristic, the run returns status partial_data, no posts, the
\* requested username, every other user field from the first record where
\* that record has it, and a non-empty error (stated of records whose
\* username is a string or absent).
C15_NoMatchGivesPartialData ==
    \A p \in Procs :
        LET r == req[p]
        IN (Returned(r) /\ r.records > 0
                /\ ~FindThrows(r.items, r.username)
                /\ FindProfile(r.items, r.username) = 0) =>
              /\ r.result.status = "partial_data"
              /\ r.result.posts = <<>>
              /\ r.result.user.username = Str(r.username)
              /\ \A f \in ProfileFields \ {"username"} :
                    r.items[1][f] # Undef =>
                        r.result.user[f] = r.items[1][f]
              /\ "error" \in DOMAIN r.result
              /\ r.result.error \notin {Undef, Str("")}

\* the records that carry the post type or a shortCode, in dataset order
PostShaped(items) ==
    LET Keep(item) == \/ item.type \in {Str("Post"), Str("post")}
                      \/ item.shortCode \notin {Undef, Str("")}
    IN SelectSeq(items, Keep)

\* ... and, of those, the ones whose ownerUsername is the requested handle
\* in any spelling
OwnPosts(items, username) ==
    LET Own(item) == /\ item.ownerUsername.t = "string"
                     /\ LowerOf(item.ownerUsername.s) = LowerOf(username)
    IN SelectSeq(PostShaped(items), Own)

\* the output posts are made one each, in order, from the records `src`
OneEach(posts, src) ==
    /\ Len(posts) = Len(src)
    /\ \A k \in 1..Len(src) :
          /\ posts[k].id = src[k].id
          /\ posts[k].shortCode = Or(src[k].shortCode, Str(""))

MatchedProfile(r) ==
    IF r.kind = "ROUTE" THEN RouteFindProfile(r.items)
    ELSE FindProfile(r.items, r.username)

\* the run returned a snapshot whose user was built from a profile record
BuiltUser(r) ==
    /\ Returned(r)
    /\ IF "status" \in DOMAIN r.result THEN r.result.status = "success"
       ELSE r.result.user # [t |-> "null"]

\* C17: the user built from a matched profile record has all eight fields,
\* whichever of them the record lacks: the empty string for a missing
\* string, 0 for a missing count, false for a missing verified.
C17_UserFullyPopulated ==
    \A p \in Procs :
        LET r == req[p]
        IN BuiltUser(r) =>
              LET profile == r.items[MatchedProfile(r)]
              IN /\ DOMAIN r.result.user = ProfileFields
                 /\ \A f \in ProfileFields :
                       /\ r.result.user[f] # Undef
                       /\ (profile[f] = Undef /\ f # "username") =>
                              r.result.user[f] = DefaultOf(f)

\* a non-negative integer
IsCount(v) == v.t = "number" /\ v.n \in Nat

\* C18: in every snapshot a run returns, user.followersCount and
\* user.followingCount are non-negative integers, whatever the provider's
\* records carry there.
C18_CountsAreNonNegative ==
    \A p \in Procs :
        Returned(req[p]) =>
            /\ IsCount(req[p].result.user.followersCount)
            /\ IsCount(req[p].result.user.followingCount)

\* C19: in every snapshot a run returns, no two posts have the same id.
C19_PostIdsUnique ==
    \A p \in Procs :
        Returned(req[p]) =>
            \A i, j \in 1..Len(req[p].result.posts) :
                i # j => req[p].result.posts[i].id # req[p].result.posts[j].id

\* a call of scrapeInstagram that has not returned yet
InFlight(r) == r.scrapes = 1 /\ r.pc # "done"

\* C20: a call of scrapeInstagram submits exactly one job when the token is
\* set and none when it is not; calls that overlap for one username submit
\* one job each, and a call fetches only the records of the job it
\* submitted itself.
C20_OneJobPerCall ==
    /\ \A p \in Procs :
          LET r == req[p]
          IN /\ r.scrapes \in {0, 1}
             /\ r.actorCalls = IF envToken THEN r.scrapes ELSE 0
             /\ r.pc \in {"call", "fetch", "delay"} => r.actorCalls = 1
             /\ r.listCalls > 0 => r.actorCalls = 1
    /\ \A p, q \in Procs :
          (p # q /\ envToken /\ InFlight(req[p]) /\ InFlight(req[q])
               /\ req[p].username = req[q].username) =>
              req[p].actorCalls + req[q].actorCalls = 2

C20_Witness ==
    \E p, q \in Procs :
        /\ p # q
        /\ req[p].username = req[q].username
        /\ req[p].pc = "fetch" /\ req[q].pc = "call"
        /\ req[p].actorCalls = 1 /\ req[q].actorCalls = 1

(* ------------------- C21: overlapping runs, last write ----------------- *)
\* both handlers have had their updateOne applied for the same
\* user.username and neither has been answered yet
BothApplied(p, q) ==
    /\ p # q
    /\ req[p].pc = "db_ack"
    /\ req[q].pc = "db_ack"
    /\ req[p].data.user.username = req[q].data.user.username

\* C21: when two runs for the same username overlap, the document left in
\* the store is the snapshot of exactly one of the two runs (the one whose
\* upsert was applied last), never a mixture of both
C21_StoredIsOneRunsSnapshot ==
    \A p, q \in Procs :
        BothApplied(p, q)
            => findOne(profiles, req[p].data.user.username)
                   \in {req[p].data, req[q].data}

(* ------------------ C22: bodies of the read endpoint ------------------- *)
\* the snapshot fields of a response body
HasSnapshotFields(body) ==
    /\ {"user", "posts", "scrapedAt", "status"} \subseteq DOMAIN body
    /\ ProfileFields \subseteq DOMAIN body.user

\* a response of a read endpoint to a request that carried a username
ReadAnswered(r) ==
    /\ r.kind \in {"GET", "ROUTEGET"}
    /\ r.pc = "done"
    /\ Truthy(Str(r.username))

\* C22: every response of the read endpoint to a request with a username
\* (hit, scrape on miss, not found, store or scrape failure) has a body with
\* user (all Profile fields), posts, scrapedAt and status
C22_ReadBodyIsSnapshot ==
    \A p \in Procs :
        ReadAnswered(req[p]) => HasSnapshotFields(req[p].resp.body)

(* ------------- C23: what makes a run abandon the pipeline -------------- *)
\* a run with a username and the token whose fetch step returned records
\* that the classification reads without a TypeError
ScrapedData(r) ==
    /\ Returned(r)
    /\ r.username # ""
    /\ envToken
    /\ r.records > 0
    /\ ~FindThrows(r.items, r.username)
    /\ ~FilterThrows(r.items, r.username)

\* C23: with a non-empty username and the credential present, a failure of
\* the job submission, of the fetch attempts, of a media relocation or of
\* the store write does not replace the data already scraped with the
\* all-defaults error snapshot
C23_ScrapedDataSurvivesFailures ==
    \A p \in Procs :
        ScrapedData(req[p]) => req[p].result.status # "error"

(* ------------------ C24: delays of the fetch retry loop ---------------- *)
\* C24: a delay is taken only between two consecutive fetch attempts: while
\* a run waits, another attempt is still permitted, so that after the last
\* permitted attempt has failed the run goes on without waiting (f - 1
\* delays for f failed attempts when all of them fail)
C24_DelayOnlyBetweenAttempts ==
    \A p \in Procs :
        req[p].pc = "delay" =>
            /\ req[p].retries < RetryLimit
            /\ req[p].delays <= RetryLimit - 1

(* -------------------- C25: object keys of relocation ------------------- *)
\* the relocation sites of one run over `items`: <<0, 0>> for the profile
\* picture, <<i, j>> for image j (with a url) of the i-th filtered post
Places(items, username) ==
    LET k == FindProfile(items, username)
        own == postItems(items, username)
    IN (IF k # 0 /\ Truthy(items[k].profilePicUrl) THEN {<<0, 0>>} ELSE {})
       \cup UNION { {<<i, j - 1>> : j \in {n \in 1..Len(ImagesOf(own[i])) :
                                            Truthy(ImagesOf(own[i])[n].url)}} :
                     i \in 1..Len(own) }

\* C25: the object key is determined by the subject and the sequence index
\* only: runs over the same provider records write the same keys (so the
\* bucket never holds more keys than one run has relocation sites), and
\* within one run two different (post, index) pairs never get the same key,
\* also for posts without a shortCode
C25_KeysDeterministic ==
    /\ \A items \in provider, u \in inputs :
           (provider = {items} /\ inputs = {u}
               /\ ~FindThrows(items, u) /\ ~FilterThrows(items, u))
             => Cardinality(s3Objects) <= Cardinality(Places(items, u))
    /\ \A p \in Procs :
           \A i, j \in DOMAIN req[p].relocs :
               i # j => req[p].relocs[i].key # req[p].relocs[j].key

(* ---------------------- C26: the not-found answer ---------------------- *)
\* a read request that missed the store and whose run got no record from
\* the provider
NothingProduced(r) ==
    /\ r.kind = "GET"
    /\ Returned(r)
    /\ r.lookup = NoDoc
    /\ r.records <= 0
    /\ r.result.status \in {"error", "empty_or_private"}

\* C26: when nothing can be produced for a username, the read endpoint
\* answers 404 with a body whose user carries the requested username with
\* default fields and whose status is not_found
C26_NothingProducedIs404 ==
    \A p \in Procs :
        NothingProduced(req[p]) =>
            /\ req[p].resp.code = 404
            /\ req[p].resp.body.status = "not_found"
            /\ req[p].resp.body.user.username = Str(req[p].username)

\* no request is ever answered 404
Never404 ==
    \A p \in Procs : req[p].pc = "done" => req[p].resp.code # 404

(* ------------------- C27: one connection at a time --------------------- *)
\* the handler's connectToDatabase call has called client.connect() and has
\* not yet assigned the cache
Establishing(r) == r.pc \in {"db_connect", "db_ping"}

\* C27: under any interleaving of overlapping connectToDatabase calls a
\* caller that arrives while a connection is being established does not
\* start another client.connect(): no two calls are establishing at once
C27_NoSecondConnectWhileConnecting ==
    \A p, q \in Procs :
        (Establishing(req[p]) /\ Establishing(req[q])) => p = q

(* ---------------------- C28: the connection cache ---------------------- *)
\* the step in which the handler's await of client.connect() or of the ping
\* rejects
ConnectThrows(p) ==
    \/ req[p].pc = "db_connect" /\ req'[p] # req[p] /\ req'[p].pc # "db_ping"
    \/ req[p].pc = "db_ping" /\ req'[p].pc # "db_ping"
                             /\ req'[p].pc # "db_query"

\* the step in which the handler calls connectToDatabase
ConnectEntered(p) ==
    /\ req[p].pc \notin {"db_connect", "db_ping", "db_query", "db_ack"}
    /\ req'[p].pc \in {"db_connect", "db_query"}

CacheStep ==
    /\ cachedClient = cachedDb
    /\ cachedClient' = cachedDb'
    /\ Cached => /\ Cached'
                 /\ connectCalls' = connectCalls
    /\ \A p \in Procs :
          /\ ConnectThrows(p) =>
                /\ cachedClient' = cachedClient
                /\ cachedDb' = cachedDb
                /\ ~Cached => ~cachedClient' /\ ~cachedDb'
                /\ (~Cached /\ req'[p].pc \in {"db_connect", "db_query"}) =>
                      /\ req'[p].pc = "db_connect"
                      /\ connectCalls' = connectCalls + 1
          /\ ConnectEntered(p) =>
                IF Cached
                THEN req'[p].pc = "db_query"
                ELSE /\ req'[p].pc = "db_connect"
                     /\ connectCalls' = connectCalls + 1

\* C28: cachedClient and cachedDb are both null or both set in every state;
\* a connectToDatabase call whose connect or ping throws leaves both null
\* and the next call connects again; once both are set no later call
\* connects or pings
C28_CacheSetTogether == [][CacheStep]_vars

\* a first call failed, a second connected, and a third call of the same
\* request (the store write after a miss) goes straight to its query
C28_Witness ==
    \E p \in Procs :
        /\ connectCalls = 2
        /\ Cached
        /\ req[p].kind = "GET"
        /\ req[p].dbop = "store"
        /\ req[p].pc = "db_query"

(* ------------------ C29: read back what the run returned --------------- *)
\* scrapeInstagram has returned and no store call of the run threw
ReturnedWithStore(r) ==
    /\ Returned(r)
    /\ r.writes > 0
    /\ ~r.storeFailed
    /\ ~r.unsaved

\* getProfileData(u) gives a document with every field of snapshot d
ReadsBack(u, d) ==
    LET doc == findOne(profiles, Str(u))
    IN /\ doc # NoDoc
       /\ \A f \in DOMAIN d : f \in DOMAIN doc /\ doc[f] = d[f]

\* C29: after scrapeInstagram(u) has returned with the store available
\* throughout, getProfileData(u) with the same string u returns the snapshot
\* the run returned, whatever its status: the document is stored under the
\* key the read endpoint looks up
C29_StoredUnderRequestedName ==
    \A p \in Procs :
        ReturnedWithStore(req[p]) => ReadsBack(req[p].username, req[p].result)

(* ------------------- C30: the error field and status ------------------- *)
\* the snapshot has an error field with a non-empty string
HasError(v) == "error" \in DOMAIN v /\ Truthy(v.error)

\* C30: in every snapshot scrapeInstagram returns the error field is present
\* and non-empty exactly when status is not success; a success snapshot has
\* no error field at all
C30_ErrorIffNotSuccess ==
    \A p \in Procs :
        Returned(req[p]) =>
            LET v == req[p].result
            IN /\ HasError(v) <=> v.status # "success"
               /\ v.status = "success" => "error" \notin DOMAIN v

\* a run ended in the catch block with an exception that had no message
C30_Witness ==
    \E p \in Procs :
        /\ Returned(req[p])
        /\ req[p].result.status = "error"
        /\ req[p].result.error = Str("Unknown error during scraping")


=============================================================================
